---- MODULE Spec2Model ----
(***************************************************************************)
(* ed-message: the binary header of an event message (header.js) and its   *)
(* two utilities (utils/stringByteLength.js, utils/validateEnumValue.js).  *)
(*                                                                         *)
(* A JavaScript string is modelled as a record [head, pad]: the UTF-16     *)
(* code units `head` followed by `pad` further units 'a' (0x61), so that   *)
(* event types near the 65535-byte limit of the header can be stated.      *)
(* The header's Buffer is the record [bytes, run, runByte]: the bytes      *)
(* `bytes` followed by `run` further bytes `runByte` (the memory the       *)
(* Buffer was allocated over, or the encoded padding once written).        *)
(***************************************************************************)
EXTENDS Integers, Sequences, FiniteSets, TLC

VARIABLES
    phase,      \* "init" | "live" (a Header exists) | "failed" (the constructor threw)
    buffer,     \* this.buffer of the Header: [bytes, run, runByte]
    args,       \* the call that constructed the Header
    lastCall,   \* the last call made, its argument and whether it returned or threw
    str,        \* stringByteLength: the argument
    s           \* stringByteLength: the value returned (-1 before the call)

vars == <<phase, buffer, args, lastCall, str, s>>

(***************************************************************************)
(* Bounds of the model.                                                    *)
(***************************************************************************)
\* longest string handed to stringByteLength on its own
MaxStrLen == 3

(***************************************************************************)
(* Program constants.                                                      *)
(***************************************************************************)
PROTOCOL_VERSION == 1
FIXED_HEADER_SIZE == 47
MAX_HEADER_LENGTH == 65535
ID_BYTE_LENGTH == 12
OFFSET_HEADER_LENGTH == 1
OFFSET_PAYLOAD_LENGTH == 3
OFFSET_OCCURRENCE_TIME == 7
OFFSET_DETECTION_TIME == 15
OFFSET_EVENT_ID == 23
OFFSET_EVENT_SOURCE == 35
COMPOSED_MASK == 8
VERSION_MASK == 7
GRANULARITY_SHIFT == 4

(***************************************************************************)
(* Arithmetic on bytes.                                                    *)
(***************************************************************************)
Min(a, b) == IF a < b THEN a ELSE b

RECURSIVE Pow2(_)
Pow2(n) == IF n = 0 THEN 1 ELSE 2 * Pow2(n - 1)

\* JavaScript's &, | and ^ on non-negative integers
RECURSIVE BitAnd(_, _)
BitAnd(a, b) ==
    IF a = 0 \/ b = 0 THEN 0
    ELSE (a % 2) * (b % 2) + 2 * BitAnd(a \div 2, b \div 2)

RECURSIVE BitOr(_, _)
BitOr(a, b) ==
    IF a = 0 THEN b
    ELSE IF b = 0 THEN a
    ELSE (IF a % 2 = 1 \/ b % 2 = 1 THEN 1 ELSE 0) + 2 * BitOr(a \div 2, b \div 2)

RECURSIVE BitXor(_, _)
BitXor(a, b) ==
    IF a = 0 THEN b
    ELSE IF b = 0 THEN a
    ELSE ((a + b) % 2) + 2 * BitXor(a \div 2, b \div 2)

\* a store into a Buffer element keeps the low 8 bits
ToByte(n) == n % 256

(***************************************************************************)
(* Strings.                                                                *)
(***************************************************************************)
Str(units) == [type |-> "string", head |-> units, pad |-> 0]
Padded(units, n) == [type |-> "string", head |-> units, pad |-> n]
\* `undefined` where a string is expected (an argument that was not passed)
UndefinedStr == [type |-> "undefined", head |-> <<>>, pad |-> 0]
StrLength(x) == Len(x.head) + x.pad

IsLowSurrogate(code) == code >= 56320 /\ code <= 57343
IsHighSurrogate(code) == code >= 55296 /\ code <= 56319

(***************************************************************************)
(* stringByteLength: the loop runs from the last code unit to the first.   *)
(* i is the 1-based index of the unit looked at, acc the running value of  *)
(* the code's s.                                                           *)
(***************************************************************************)
RECURSIVE SblLoop(_, _, _)
SblLoop(units, i, acc) ==
    IF i < 1 THEN acc
    ELSE LET code == units[i]
             acc1 == IF code > 127 /\ code <= 2047 THEN acc + 1
                     ELSE IF code > 2047 /\ code <= 65535 THEN acc + 2
                     ELSE acc
             i1   == IF IsLowSurrogate(code) THEN i - 1 ELSE i
         IN  SblLoop(units, i1 - 1, acc1)

\* The trailing pad units are 'a': the loop passes over each of them adding
\* nothing and skipping nothing, and reaches the head with s = str.length.
stringByteLength(x) == SblLoop(x.head, Len(x.head), StrLength(x))

(***************************************************************************)
(* The UTF-8 encoding Buffer.write produces, one byte sequence per         *)
(* character written. A surrogate pair is one character of 4 bytes; a      *)
(* surrogate without its partner is written as U+FFFD (EF BF BD).          *)
(***************************************************************************)
EncodeCodePoint(cp) ==
    IF cp < 128 THEN <<cp>>
    ELSE IF cp < 2048 THEN <<192 + (cp \div 64), 128 + (cp % 64)>>
    ELSE IF cp < 65536 THEN
        <<224 + (cp \div 4096), 128 + ((cp \div 64) % 64), 128 + (cp % 64)>>
    ELSE <<240 + (cp \div 262144), 128 + ((cp \div 4096) % 64),
           128 + ((cp \div 64) % 64), 128 + (cp % 64)>>

RECURSIVE Utf8CharsFrom(_, _)
Utf8CharsFrom(units, i) ==
    IF i > Len(units) THEN <<>>
    ELSE LET u == units[i] IN
         IF IsHighSurrogate(u) /\ i < Len(units) /\ IsLowSurrogate(units[i + 1])
         THEN <<EncodeCodePoint(65536 + (u - 55296) * 1024 + (units[i + 1] - 56320))>>
              \o Utf8CharsFrom(units, i + 2)
         ELSE IF IsHighSurrogate(u) \/ IsLowSurrogate(u)
         THEN <<EncodeCodePoint(65533)>> \o Utf8CharsFrom(units, i + 1)
         ELSE <<EncodeCodePoint(u)>> \o Utf8CharsFrom(units, i + 1)

Utf8Chars(units) == Utf8CharsFrom(units, 1)

RECURSIVE Flatten(_)
Flatten(chars) == IF chars = <<>> THEN <<>> ELSE Head(chars) \o Flatten(Tail(chars))

\* Buffer.byteLength(x, 'utf8')
Utf8ByteLength(x) == Len(Flatten(Utf8Chars(x.head))) + x.pad

(***************************************************************************)
(* stringByteLength on its own.                                            *)
(***************************************************************************)
SampleUnits == {97, 127, 128, 2047, 2048, 55357, 56319, 56320, 57343, 57344, 65535}

RECURSIVE SeqsUpTo(_, _)
SeqsUpTo(S, n) ==
    IF n = 0 THEN {<<>>}
    ELSE LET shorter == SeqsUpTo(S, n - 1)
         IN  shorter \cup {Append(q, u) : q \in {t \in shorter : Len(t) = n - 1}, u \in S}

(***************************************************************************)
(* Buffer (Node's, as header.js uses it). Length(b) = b.length.            *)
(***************************************************************************)
Fill(n, byte) == [i \in 1..n |-> byte]
Length(b) == Len(b.bytes) + b.run

\* bytes [from, to) of a byte sequence, offsets counted from 0
Slice(bytes, from, to) == [i \in 1..(to - from) |-> bytes[from + i]]

\* data stored at offset off (counted from 0) of a byte sequence
Overlay(bytes, off, data) ==
    [i \in 1..Len(bytes) |->
        IF i > off /\ i <= off + Len(data) THEN data[i - off] ELSE bytes[i]]

\* the same buffer with `more` further bytes (of its run) held in `bytes`
Grow(b, more) ==
    [bytes |-> b.bytes \o Fill(more, b.runByte), run |-> b.run - more,
     runByte |-> b.runByte]

\* the same buffer with its first k bytes (or all of them) held in `bytes`
Materialize(b, k) ==
    IF Min(k, Length(b)) > Len(b.bytes) THEN Grow(b, Min(k, Length(b)) - Len(b.bytes))
    ELSE b

\* new Buffer(size): size bytes of memory that is not cleared; fill is what the
\* memory held
NewBuffer(size, fill) ==
    [bytes |-> Fill(Min(size, FIXED_HEADER_SIZE), fill),
     run |-> size - Min(size, FIXED_HEADER_SIZE), runByte |-> fill]

\* the leading characters that fit whole in `room` bytes
RECURSIVE TakeFitting(_, _)
TakeFitting(chars, room) ==
    IF chars = <<>> \/ Len(Head(chars)) > room THEN <<>>
    ELSE <<Head(chars)>> \o TakeFitting(Tail(chars), room - Len(Head(chars)))

\* data stored at offset off, which `bytes` holds
StoreHeld(b, off, data) == [b EXCEPT !.bytes = Overlay(b.bytes, off, data)]

\* data stored at offset off of the buffer (it fits)
StoreBytes(b, off, data) == StoreHeld(Materialize(b, off + Len(data)), off, data)

\* n bytes 'a' stored at offset at (they fit): what reaches into the run either
\* fills it, and the run becomes a run of 'a', or is stored byte by byte
StorePad(b, at, n) ==
    IF n <= Len(b.bytes) - at THEN StoreHeld(b, at, Fill(n, 97))
    ELSE IF at <= Len(b.bytes) /\ n - (Len(b.bytes) - at) = b.run
    THEN [StoreHeld(b, at, Fill(Len(b.bytes) - at, 97)) EXCEPT !.runByte = 97]
    ELSE StoreBytes(b, at, Fill(n, 97))

\* the bytes hb of the characters that fit, then as much of the padding as fits
WriteBytesAndPad(b, off, hb, pad) ==
    StorePad(StoreBytes(b, off, hb), off + Len(hb), Min(pad, Length(b) - off - Len(hb)))

\* writing stops at the first character that does not fit whole
WriteFitting(b, off, fitting, nChars, pad) ==
    WriteBytesAndPad(b, off, Flatten(fitting), IF Len(fitting) = nChars THEN pad ELSE 0)

WriteChars(b, off, chars, pad) ==
    WriteFitting(b, off, TakeFitting(chars, Length(b) - off), Len(chars), pad)

\* buf.write(string, offset): the UTF-8 bytes of the string from offset on, as
\* many whole characters as fit in the buffer
BufferWrite(b, x, off) == WriteChars(b, off, Utf8Chars(x.head), x.pad)

\* buf.toString('utf8', ...) of a byte sequence: a byte that starts no well-formed
\* sequence decodes to U+FFFD
IsCont(b, i) == i <= Len(b) /\ b[i] >= 128 /\ b[i] <= 191

RECURSIVE Utf8DecodeFrom(_, _)
Utf8DecodeFrom(b, i) ==
    IF i > Len(b) THEN <<>>
    ELSE LET b1  == b[i]
             cp2 == (b1 - 192) * 64 + (b[i + 1] - 128)
             cp3 == (b1 - 224) * 4096 + (b[i + 1] - 128) * 64 + (b[i + 2] - 128)
             cp4 == (b1 - 240) * 262144 + (b[i + 1] - 128) * 4096
                    + (b[i + 2] - 128) * 64 + (b[i + 3] - 128)
         IN  IF b1 < 128 THEN <<b1>> \o Utf8DecodeFrom(b, i + 1)
             ELSE IF b1 >= 194 /\ b1 <= 223 /\ IsCont(b, i + 1)
             THEN <<cp2>> \o Utf8DecodeFrom(b, i + 2)
             ELSE IF /\ b1 >= 224 /\ b1 <= 239 /\ IsCont(b, i + 1) /\ IsCont(b, i + 2)
                     /\ cp3 >= 2048 /\ ~IsHighSurrogate(cp3) /\ ~IsLowSurrogate(cp3)
             THEN <<cp3>> \o Utf8DecodeFrom(b, i + 3)
             ELSE IF /\ b1 >= 240 /\ b1 <= 244
                     /\ IsCont(b, i + 1) /\ IsCont(b, i + 2) /\ IsCont(b, i + 3)
                     /\ cp4 >= 65536 /\ cp4 <= 1114111
             THEN <<55296 + ((cp4 - 65536) \div 1024), 56320 + ((cp4 - 65536) % 1024)>>
                  \o Utf8DecodeFrom(b, i + 4)
             ELSE <<65533>> \o Utf8DecodeFrom(b, i + 1)

Utf8Decode(bytes) == Utf8DecodeFrom(bytes, 1)

(***************************************************************************)
(* JavaScript values passed to the setters. A number is                    *)
(*   (neg ? -1 : 1) * (hi * 65536 + lo + (half ? 0.5 : 0)),                *)
(* or NaN or +-Infinity (special); `type` is what typeof gives.            *)
(***************************************************************************)
Number(neg, hi, lo, half) ==
    [type |-> "number", special |-> "none", neg |-> neg, hi |-> hi, lo |-> lo, half |-> half]
Special(name, neg) ==
    [type |-> "number", special |-> name, neg |-> neg, hi |-> 0, lo |-> 0, half |-> FALSE]
\* a value that is not a number (a string, undefined, an object)
NotANumber(type) ==
    [type |-> type, special |-> "none", neg |-> FALSE, hi |-> 0, lo |-> 0, half |-> FALSE]

IsZero(n) == n.special = "none" /\ n.hi = 0 /\ n.lo = 0 /\ ~n.half
IsNegative(n) == n.neg /\ ~IsZero(n) /\ n.special # "NaN"
IsInteger(n) == n.special = "none" /\ ~n.half

\* n > 4294967295
ExceedsUInt32(n) ==
    /\ ~n.neg
    /\ \/ n.special = "Infinity"
       \/ /\ n.special = "none"
          /\ \/ n.hi > 65535
             \/ n.hi = 65535 /\ n.lo = 65535 /\ n.half

\* n > 2E+63 - 1: of the numbers above only +Infinity is that large
ExceedsTimeBound(n) == ~n.neg /\ n.special = "Infinity"

(***************************************************************************)
(* Buffer's integer and double writes. Each returns [ok, bytes]: ok is     *)
(* FALSE when the call throws. Node documents a value that is not an       *)
(* unsigned integer of the width as undefined behaviour: v0.10 asserts     *)
(* that the value is an integer in range ("assert"), later releases check  *)
(* the range alone and store the truncated value ("range").                *)
(***************************************************************************)
\* buf.writeUInt16BE(value, offset), value a non-negative integer
WriteUInt16BE(bytes, value, off) ==
    IF value > 65535 \/ off + 2 > Len(bytes)
    THEN [ok |-> FALSE, bytes |-> bytes]
    ELSE [ok |-> TRUE, bytes |-> Overlay(bytes, off, <<value \div 256, value % 256>>)]

\* buf.readUInt16BE(offset)
ReadUInt16BE(bytes, off) == bytes[off + 1] * 256 + bytes[off + 2]

\* buf.writeUInt32BE(value, offset)
WriteUInt32BE(bytes, n, off, impl) ==
    LET stored == IF n.special = "none" THEN <<n.hi \div 256, n.hi % 256,
                                               n.lo \div 256, n.lo % 256>>
                  ELSE <<0, 0, 0, 0>>
    IN  IF ExceedsUInt32(n) \/ IsNegative(n) \/ off + 4 > Len(bytes)
        THEN [ok |-> FALSE, bytes |-> bytes]
        ELSE IF ~IsInteger(n) /\ impl = "assert"
        THEN [ok |-> FALSE, bytes |-> bytes]
        ELSE [ok |-> TRUE, bytes |-> Overlay(bytes, off, stored)]

\* buf.readUInt32BE(offset)
ReadUInt32BE(bytes, off) ==
    Number(FALSE, bytes[off + 1] * 256 + bytes[off + 2],
           bytes[off + 3] * 256 + bytes[off + 4], FALSE)

\* floor(log2(m)) for m >= 1
RECURSIVE Log2(_)
Log2(m) == IF m < 2 THEN 0 ELSE 1 + Log2(m \div 2)

\* The IEEE-754 binary64 image, big-endian, of a finite number below 32768
\* (m = 2|n| is an integer of k+1 bits, so |n| = 1.f * 2^(k-1))
DoubleBE(n) ==
    LET m    == 2 * n.lo + (IF n.half THEN 1 ELSE 0)
        k    == Log2(m)
        e    == k - 1 + 1023
        f20  == (m - Pow2(k)) * Pow2(20 - k)
        sign == IF n.neg THEN 128 ELSE 0
    IN  IF m = 0 THEN <<sign, 0, 0, 0, 0, 0, 0, 0>>
        ELSE <<sign + (e \div 16), (e % 16) * 16 + (f20 \div 65536),
               (f20 \div 256) % 256, f20 % 256, 0, 0, 0, 0>>

\* buf.writeDoubleBE(value, offset): v0.10 asserts a finite number, later
\* releases store NaN and the infinities as well
WriteDoubleBE(bytes, n, off, impl) ==
    LET image == IF n.special = "NaN" THEN <<127, 248, 0, 0, 0, 0, 0, 0>>
                 ELSE IF n.special = "Infinity"
                 THEN <<(IF n.neg THEN 255 ELSE 127), 240, 0, 0, 0, 0, 0, 0>>
                 ELSE DoubleBE(n)
    IN  IF off + 8 > Len(bytes) \/ (n.special # "none" /\ impl = "assert")
        THEN [ok |-> FALSE, bytes |-> bytes]
        ELSE [ok |-> TRUE, bytes |-> Overlay(bytes, off, image)]

\* buf.readDoubleBE(offset): the number whose image the 8 bytes are; an image of
\* no number of the model reads as special "other"
ReadDoubleBE(bytes, off) ==
    LET b    == Slice(bytes, off, off + 8)
        neg  == b[1] >= 128
        e    == (b[1] % 128) * 16 + (b[2] \div 16)
        f20  == (b[2] % 16) * 65536 + b[3] * 256 + b[4]
        low0 == b[5] = 0 /\ b[6] = 0 /\ b[7] = 0 /\ b[8] = 0
        k    == e - 1022
        m    == Pow2(k) + (f20 \div Pow2(20 - k))
    IN  IF e = 0 /\ f20 = 0 /\ low0 THEN Number(neg, 0, 0, FALSE)
        ELSE IF e = 2047 /\ f20 = 0 /\ low0 THEN Special("Infinity", neg)
        ELSE IF e = 2047 THEN Special("NaN", FALSE)
        ELSE IF low0 /\ k >= 0 /\ k <= 15 /\ f20 % Pow2(20 - k) = 0
        THEN Number(neg, 0, m \div 2, m % 2 = 1)
        ELSE Special("other", neg)

(***************************************************************************)
(* The other argument values: a temporalGranularity is [type, val] (val    *)
(* the number, or the number a numeric string spells), an isComposed is    *)
(* [type, val].                                                            *)
(***************************************************************************)
GNumber(c) == [type |-> "number", val |-> c]
GString(c) == [type |-> "string", val |-> c]
GUndefined == [type |-> "undefined", val |-> 0]
Bool(b) == [type |-> "boolean", val |-> b]
FlagUndefined == [type |-> "undefined", val |-> FALSE]
FlagString == [type |-> "string", val |-> FALSE]

(***************************************************************************)
(* ed-temporal-granularity, the object header.js requires: numeric codes   *)
(* under their names (second is 2) and, under `properties`, the object     *)
(* that getTemporalGranularityName indexes by code.                        *)
(***************************************************************************)
GranularityCodes == 0..15
GranularityProperties == [type |-> "object", val |-> 0]
\* the values of the object's enumerable properties
granularity == {GNumber(c) : c \in GranularityCodes} \cup {GranularityProperties}

\* validateEnumValue: some property of enumToCheck is === value
validateEnumValue(value, enumToCheck) ==
    \E member \in enumToCheck : value.type = member.type /\ value.val = member.val

\* value << 4: ToInt32 of something that is no number is 0
ShiftLeft4(value) ==
    IF value.type \in {"number", "string"} THEN value.val * Pow2(GRANULARITY_SHIFT) ELSE 0

\* eventType > limit, the string converted to a number: true only of a string
\* of decimal digits that spells a larger number (other strings convert to NaN,
\* the empty string to 0)
RECURSIVE DecimalExceeds(_, _, _, _)
DecimalExceeds(units, i, acc, limit) ==
    IF i > Len(units) THEN acc > limit
    ELSE DecimalExceeds(units, i + 1, Min(acc * 10 + (units[i] - 48), limit + 1), limit)

StringExceeds(x, limit) ==
    /\ x.pad = 0
    /\ \A i \in 1..Len(x.head) : x.head[i] >= 48 /\ x.head[i] <= 57
    /\ DecimalExceeds(x.head, 1, 0, limit)

(***************************************************************************)
(* Header, the constructor. a is the call: a.argc arguments were passed    *)
(* (the parameters beyond them are undefined), with `new` or without;      *)
(* a.fill is what the memory of the new Buffer held, a.node the Buffer     *)
(* implementation. The result is [ok, buffer]: ok is FALSE when the call   *)
(* throws.                                                                 *)
(***************************************************************************)
Threw(b) == [ok |-> FALSE, buffer |-> b]
Returned(b) == [ok |-> TRUE, buffer |-> b]
NoBuffer == [bytes |-> <<>>, run |-> 0, runByte |-> 0]

SetByte0(b, value) == [b EXCEPT !.bytes[1] = ToByte(value)]

\* lines 104-110: the flag is set when four arguments were passed and the
\* fourth is a boolean
HeaderComposed(b, argumentsLength, isComposed) ==
    IF /\ argumentsLength = 4
       /\ isComposed.type = "boolean"
       /\ (~(BitAnd(b.bytes[1], COMPOSED_MASK) # 0)) = isComposed.val
    THEN Returned(SetByte0(b, BitXor(b.bytes[1], COMPOSED_MASK)))
    ELSE Returned(b)

\* lines 96-102
HeaderSource(b, argumentsLength, eventSource, isComposed) ==
    IF eventSource.type # "string" \/ stringByteLength(eventSource) # ID_BYTE_LENGTH
    THEN Threw(NoBuffer)
    ELSE HeaderComposed(BufferWrite(b, eventSource, OFFSET_EVENT_SOURCE),
                        argumentsLength, isComposed)

\* lines 88-94
HeaderGranularity(b, argumentsLength, temporalGranularity, eventSource, isComposed) ==
    IF ~validateEnumValue(temporalGranularity, granularity) THEN Threw(NoBuffer)
    ELSE HeaderSource(SetByte0(b, BitOr(b.bytes[1], ShiftLeft4(temporalGranularity))),
                      argumentsLength, eventSource, isComposed)

\* lines 83-84: w is what writeUInt16BE (_buffer.length, 1) gave
HeaderType(b, w, argumentsLength, eventType, temporalGranularity, eventSource, isComposed) ==
    IF ~w.ok THEN Threw(NoBuffer)
    ELSE HeaderGranularity(BufferWrite([b EXCEPT !.bytes = w.bytes], eventType,
                                       FIXED_HEADER_SIZE),
                           argumentsLength, temporalGranularity, eventSource, isComposed)

\* line 83: b is the buffer with the version stored
HeaderLength(b, argumentsLength, eventType, temporalGranularity, eventSource, isComposed) ==
    HeaderType(b, WriteUInt16BE(b.bytes, Length(b), OFFSET_HEADER_LENGTH),
               argumentsLength, eventType, temporalGranularity, eventSource, isComposed)

\* lines 79-80: b is the new Buffer
HeaderBuffer(b, argumentsLength, eventType, temporalGranularity, eventSource, isComposed) ==
    HeaderLength(SetByte0(b, PROTOCOL_VERSION),
                 argumentsLength, eventType, temporalGranularity, eventSource, isComposed)

\* lines 66-77
HeaderNew(argumentsLength, eventType, temporalGranularity, eventSource, isComposed, fill) ==
    IF argumentsLength < 3 \/ argumentsLength > 4 THEN Threw(NoBuffer)
    \* typeof eventType != 'string': reading .length of undefined throws
    ELSE IF eventType.type # "string" THEN Threw(NoBuffer)
    ELSE IF StringExceeds(eventType, MAX_HEADER_LENGTH - FIXED_HEADER_SIZE)
    THEN Threw(NoBuffer)
    ELSE HeaderBuffer(NewBuffer(FIXED_HEADER_SIZE + stringByteLength(eventType), fill),
                      argumentsLength, eventType, temporalGranularity, eventSource,
                      isComposed)

\* lines 43-47: without `new` the function calls new Header (eventType,
\* temporalGranularity, eventSource, isComposed), which sees four arguments
Header(a) ==
    HeaderNew(IF a.viaNew THEN a.argc ELSE 4,
              IF a.argc >= 1 THEN a.eventType ELSE UndefinedStr,
              IF a.argc >= 2 THEN a.temporalGranularity ELSE GUndefined,
              IF a.argc >= 3 THEN a.eventSource ELSE UndefinedStr,
              IF a.argc >= 4 THEN a.isComposed ELSE FlagUndefined,
              a.fill)

(***************************************************************************)
(* The accessors.                                                          *)
(***************************************************************************)
getProtocolVersion(b) == BitAnd(b.bytes[1], VERSION_MASK)
getHeaderLength(b) == ReadUInt16BE(b.bytes, OFFSET_HEADER_LENGTH)
getPayloadLength(b) == ReadUInt32BE(b.bytes, OFFSET_PAYLOAD_LENGTH)
getTemporalGranularity(b) == b.bytes[1] \div Pow2(GRANULARITY_SHIFT)
isComposed(b) == BitAnd(b.bytes[1], COMPOSED_MASK) # 0
getOccurrenceTime(b) == ReadDoubleBE(b.bytes, OFFSET_OCCURRENCE_TIME)
getDetectionTime(b) == ReadDoubleBE(b.bytes, OFFSET_DETECTION_TIME)
getEventId(b) == Str(Utf8Decode(Slice(b.bytes, OFFSET_EVENT_ID, OFFSET_EVENT_SOURCE)))
getEventSource(b) ==
    Str(Utf8Decode(Slice(b.bytes, OFFSET_EVENT_SOURCE, FIXED_HEADER_SIZE)))
\* toString ('utf8', FIXED_HEADER_SIZE, getHeaderLength ()); a run of 'a' bytes
\* decodes to as many 'a' units
DecodeType(m, end) ==
    Padded(Utf8Decode(Slice(m.bytes, FIXED_HEADER_SIZE, Min(end, Len(m.bytes)))),
           end - Min(end, Len(m.bytes)))
getEventType(b) ==
    DecodeType(IF b.runByte = 97 THEN b ELSE Materialize(b, Length(b)),
               Min(getHeaderLength(b), Length(b)))

(***************************************************************************)
(* The mutators: [ok, buffer] as for the constructor.                      *)
(***************************************************************************)
\* the outcome of a write w into the bytes of b
Written(b, w) == [ok |-> w.ok, buffer |-> [b EXCEPT !.bytes = w.bytes]]

setPayloadLength(b, payloadLength, node) ==
    IF payloadLength.type # "number" \/ ExceedsUInt32(payloadLength) THEN Threw(b)
    ELSE Written(b, WriteUInt32BE(b.bytes, payloadLength, OFFSET_PAYLOAD_LENGTH, node))

\* setComposed without the comparison with the current flag: toggles bit 3 for
\* every boolean
setComposedAlwaysFlips(b, composed) ==
    IF composed.type # "boolean" THEN Threw(b)
    ELSE Returned(SetByte0(b, BitXor(b.bytes[1], COMPOSED_MASK)))

setComposed(b, composed) ==
    IF composed.type # "boolean" THEN Threw(b)
    ELSE IF (~(BitAnd(b.bytes[1], COMPOSED_MASK) # 0)) = composed.val
    THEN Returned(SetByte0(b, BitXor(b.bytes[1], COMPOSED_MASK)))
    ELSE Returned(b)

setOccurrenceTime(b, occurrenceTime, node) ==
    IF occurrenceTime.type # "number" \/ ExceedsTimeBound(occurrenceTime) THEN Threw(b)
    ELSE Written(b, WriteDoubleBE(b.bytes, occurrenceTime, OFFSET_OCCURRENCE_TIME, node))

setDetectionTime(b, detectionTime, node) ==
    IF detectionTime.type # "number" \/ ExceedsTimeBound(detectionTime) THEN Threw(b)
    ELSE Written(b, WriteDoubleBE(b.bytes, detectionTime, OFFSET_DETECTION_TIME, node))

setEventId(b, eventId) ==
    IF eventId.type # "string" \/ stringByteLength(eventId) # ID_BYTE_LENGTH THEN Threw(b)
    ELSE Returned(BufferWrite(b, eventId, OFFSET_EVENT_ID))

(***************************************************************************)
(* The values the calls are made with.                                     *)
(***************************************************************************)
\* "testEventType", "abcd-12345yz": the strings of the repository's test
TestEventType == Str(<<116, 101, 115, 116, 69, 118, 101, 110, 116, 84, 121, 112, 101>>)
TestEventSource == Str(<<97, 98, 99, 100, 45, 49, 50, 51, 52, 53, 121, 122>>)
\* U+00E9 and a low surrogate with no high surrogate before it
LoneLowAfterAccent == <<233, 56832>>
\* "evt-0001", U+20AC, a lone low surrogate
SpillingId == Str(<<101, 118, 116, 45, 48, 48, 48, 49, 8364, 56832>>)
\* "src-0001", U+20AC, a lone low surrogate
SpillingSource == Str(<<115, 114, 99, 45, 48, 48, 48, 49, 8364, 56832>>)
\* "short"
Short == Str(<<115, 104, 111, 114, 116>>)
\* "abcd-12345y" and U+00E9: 12 units, 13 bytes
ThirteenBytes == Str(<<97, 98, 99, 100, 45, 49, 50, 51, 52, 53, 121, 233>>)

\* The values are listed, and the actions draw them, in the order written.

EventTypes ==
    << TestEventType, Str(<<>>), Str(LoneLowAfterAccent),
       Str(<<55357, 56832>>),                            \* U+1F600, a surrogate pair
       Str(<<57, 57, 57, 57, 57>>),                      \* "99999"
       Padded(TestEventType.head, MAX_HEADER_LENGTH - FIXED_HEADER_SIZE - 13),
       Padded(TestEventType.head, MAX_HEADER_LENGTH - FIXED_HEADER_SIZE - 12),
       Padded(LoneLowAfterAccent, MAX_HEADER_LENGTH - FIXED_HEADER_SIZE - 4) >>
\* second (2) first, then the other codes, 16, "2", undefined, the properties object
Granularities ==
    <<GNumber(2)>> \o [i \in 1..17 |-> GNumber(i - 1)]
    \o <<GString(2), GUndefined, GranularityProperties>>
EventSources == <<TestEventSource, SpillingSource, Short, ThirteenBytes, UndefinedStr>>
Flags == <<Bool(TRUE), Bool(FALSE), FlagString>>
ArgumentCounts == <<3, 4, 5, 2, 1, 0>>
\* with `new`, without
News == <<TRUE, FALSE>>
\* what the memory of a new Buffer may hold
Fills == <<0, 165>>
Nodes == <<"assert", "range">>

\* 4294967295, 4294967296, -1, 1.5, a string
PayloadLengths ==
    << Number(FALSE, 65535, 65535, FALSE), Number(FALSE, 65536, 0, FALSE),
       Number(TRUE, 0, 1, FALSE), Number(FALSE, 0, 1, TRUE), NotANumber("string") >>
\* 1.5, Infinity, undefined
Times == <<Number(FALSE, 0, 1, TRUE), Special("Infinity", FALSE), NotANumber("undefined")>>
EventIds == <<TestEventSource, SpillingId, Short, UndefinedStr>>

\* a call of the constructor; a parameter beyond the arguments passed is undefined
NewCall(n, v, t, g, e, c, f, i) ==
    [argc |-> n, viaNew |-> v,
     eventType |-> IF n >= 1 THEN t ELSE UndefinedStr,
     temporalGranularity |-> IF n >= 2 THEN g ELSE GUndefined,
     eventSource |-> IF n >= 3 THEN e ELSE UndefinedStr,
     isComposed |-> IF n >= 4 THEN c ELSE FlagUndefined,
     fill |-> f, node |-> i]

\* the values a Header is constructed with before its mutators are called
LifeGranularities == <<GNumber(2), GNumber(15), GNumber(16), GranularityProperties>>
LifeEventSources == <<TestEventSource, Short>>
LifeArgumentCounts == <<3, 4>>

(***************************************************************************)
(* The state machine.                                                      *)
(***************************************************************************)
NoArgs ==
    [argc |-> 0, viaNew |-> TRUE, eventType |-> UndefinedStr,
     temporalGranularity |-> GUndefined, eventSource |-> UndefinedStr,
     isComposed |-> FlagUndefined, fill |-> 0, node |-> "assert"]
Call(op, ok, num, text, flag) ==
    [op |-> op, outcome |-> IF ok THEN "returned" ELSE "threw",
     num |-> num, text |-> text, flag |-> flag]
NoCall ==
    [op |-> "none", outcome |-> "none", num |-> NotANumber("undefined"),
     text |-> UndefinedStr, flag |-> FlagUndefined]

Init ==
    /\ phase = "init"
    /\ buffer = NoBuffer
    /\ args = NoArgs
    /\ lastCall = NoCall
    /\ str = Str(<<>>)
    /\ s = -1

\* the constructor has returned r for the call a
Constructs(a, r) ==
    /\ phase' = (IF r.ok THEN "live" ELSE "failed")
    /\ buffer' = r.buffer
    /\ args' = a
    /\ lastCall' = Call("Header", r.ok, NoCall.num, NoCall.text, NoCall.flag)
    /\ UNCHANGED <<str, s>>

ConstructWith(a) == Constructs(a, Header(a))

\* new Header (...) with the test's event type and a boolean or no fourth argument
Construct ==
    /\ phase = "init"
    /\ \E g \in DOMAIN LifeGranularities, e \in DOMAIN LifeEventSources,
          n \in DOMAIN LifeArgumentCounts, c \in {1, 2},
          f \in DOMAIN Fills, i \in DOMAIN Nodes :
          ConstructWith(NewCall(LifeArgumentCounts[n], TRUE, TestEventType,
                                LifeGranularities[g], LifeEventSources[e], Flags[c],
                                Fills[f], Nodes[i]))

\* any call of the constructor
ConstructAny ==
    /\ phase = "init"
    /\ \E t \in DOMAIN EventTypes, g \in DOMAIN Granularities,
          e \in DOMAIN EventSources, c \in DOMAIN Flags,
          n \in DOMAIN ArgumentCounts, v \in DOMAIN News,
          f \in DOMAIN Fills, i \in DOMAIN Nodes :
          ConstructWith(NewCall(ArgumentCounts[n], News[v], EventTypes[t], Granularities[g],
                                EventSources[e], Flags[c], Fills[f], Nodes[i]))

SetPayloadLength ==
    /\ phase = "live"
    /\ \E k \in DOMAIN PayloadLengths :
          LET n == PayloadLengths[k]
              r == setPayloadLength(buffer, n, args.node)
          IN  /\ buffer' = r.buffer
              /\ lastCall' = Call("setPayloadLength", r.ok, n, NoCall.text, NoCall.flag)
    /\ UNCHANGED <<phase, args, str, s>>

SetOccurrenceTime ==
    /\ phase = "live"
    /\ \E k \in DOMAIN Times :
          LET n == Times[k]
              r == setOccurrenceTime(buffer, n, args.node)
          IN  /\ buffer' = r.buffer
              /\ lastCall' = Call("setOccurrenceTime", r.ok, n, NoCall.text, NoCall.flag)
    /\ UNCHANGED <<phase, args, str, s>>

SetDetectionTime ==
    /\ phase = "live"
    /\ \E k \in DOMAIN Times :
          LET n == Times[k]
              r == setDetectionTime(buffer, n, args.node)
          IN  /\ buffer' = r.buffer
              /\ lastCall' = Call("setDetectionTime", r.ok, n, NoCall.text, NoCall.flag)
    /\ UNCHANGED <<phase, args, str, s>>

SetEventId ==
    /\ phase = "live"
    /\ \E k \in DOMAIN EventIds :
          LET id == EventIds[k]
              r == setEventId(buffer, id)
          IN  /\ buffer' = r.buffer
              /\ lastCall' = Call("setEventId", r.ok, NoCall.num, id, NoCall.flag)
    /\ UNCHANGED <<phase, args, str, s>>

SetComposed ==
    /\ phase = "live"
    /\ \E k \in DOMAIN Flags :
          LET c == Flags[k]
              r == setComposed(buffer, c)
          IN  /\ buffer' = r.buffer
              /\ lastCall' = Call("setComposed", r.ok, NoCall.num, NoCall.text, c)
    /\ UNCHANGED <<phase, args, str, s>>

Next ==
    \/ Construct
    \/ SetPayloadLength
    \/ SetOccurrenceTime
    \/ SetDetectionTime
    \/ SetEventId
    \/ SetComposed

Spec == Init /\ [][Next]_vars

\* construction alone, over every call of the constructor
NextCtor == ConstructAny

SpecCtor == Init /\ [][NextCtor]_vars

(***************************************************************************)
(* stringByteLength on its own.                                            *)
(***************************************************************************)
InitLen ==
    /\ phase = "init"
    /\ buffer = NoBuffer
    /\ args = NoArgs
    /\ lastCall = NoCall
    /\ str \in {Str(q) : q \in SeqsUpTo(SampleUnits, MaxStrLen)}
    /\ s = -1

CallStringByteLength ==
    /\ s = -1
    /\ s' = stringByteLength(str)
    /\ UNCHANGED <<phase, buffer, args, lastCall, str>>

NextLen == CallStringByteLength

SpecLen == InitLen /\ [][NextLen]_vars

(***************************************************************************)
(* Properties.                                                             *)
(***************************************************************************)
\* the Header as the constructor left it
Constructed == Header(args).buffer
\* the number n is the non-negative integer hi * 65536 + lo <= 4294967295
IsUInt32(n) ==
    n.type = "number" /\ n.special = "none" /\ ~n.neg /\ ~n.half /\ n.hi <= 65535
\* the bytes of a and b are the same outside offsets [from, to)
SameOutside(a, b, from, to) ==
    /\ Len(a.bytes) = Len(b.bytes) /\ a.run = b.run
    /\ \A i \in 1..Len(a.bytes) : (i <= from \/ i > to) => a.bytes[i] = b.bytes[i]
\* the byte count the UTF-8 encoding has: 1, 2 or 3 per code unit by its range,
\* 4 for a high surrogate followed by a low surrogate
RECURSIVE EncodedLength(_, _)
EncodedLength(units, i) ==
    IF i > Len(units) THEN 0
    ELSE IF IsHighSurrogate(units[i]) /\ i < Len(units) /\ IsLowSurrogate(units[i + 1])
    THEN 4 + EncodedLength(units, i + 2)
    ELSE (IF units[i] < 128 THEN 1 ELSE IF units[i] < 2048 THEN 2 ELSE 3)
         + EncodedLength(units, i + 1)

\* C1: for every Header constructed, and after any mutator calls on it,
\* getHeaderLength() is buffer.length, and buffer.length is 47 plus the UTF-8
\* byte length of the eventType the constructor was given.
C1_HeaderLengthIsEncodedLength ==
    phase = "live" =>
        /\ getHeaderLength(buffer) = Length(buffer)
        /\ Length(buffer) = FIXED_HEADER_SIZE + Utf8ByteLength(args.eventType)

\* The part of C1 that does not rest on the byte count: getHeaderLength() is
\* buffer.length, which is 47 plus what stringByteLength gives for the eventType.
HeaderLengthIsBufferLength ==
    phase = "live" =>
        /\ getHeaderLength(buffer) = Length(buffer)
        /\ Length(buffer) = FIXED_HEADER_SIZE + stringByteLength(args.eventType)

\* C2: protocolVersion, temporalGranularity, headerLength, eventSource and
\* eventType of a Header read, after any mutator calls, as they did right after
\* construction.
C2_ImmutableFields ==
    phase = "live" =>
        /\ getProtocolVersion(buffer) = getProtocolVersion(Constructed)
        /\ getTemporalGranularity(buffer) = getTemporalGranularity(Constructed)
        /\ getHeaderLength(buffer) = getHeaderLength(Constructed)
        /\ getEventSource(buffer) = getEventSource(Constructed)
        /\ getEventType(buffer) = getEventType(Constructed)

\* C3: setPayloadLength(n) returns exactly when n is an integer in
\* 0..4294967295, and then getPayloadLength() is n; any other n makes it throw
\* and leaves the buffer as it was.
C3_PayloadLengthChecked ==
    [][lastCall'.op = "setPayloadLength" =>
         /\ (lastCall'.outcome = "returned") <=> IsUInt32(lastCall'.num)
         /\ lastCall'.outcome = "returned" => getPayloadLength(buffer') = lastCall'.num
         /\ lastCall'.outcome = "threw" => buffer' = buffer]_vars

\* C4: the constructor throws whenever eventType is the empty string or has more
\* than 65535 - 47 bytes in UTF-8: every Header has an eventType of 1 to 65488
\* bytes.
C4_EventTypeLengthChecked ==
    phase = "live" =>
        /\ Utf8ByteLength(args.eventType) > 0
        /\ Utf8ByteLength(args.eventType) <= MAX_HEADER_LENGTH - FIXED_HEADER_SIZE

\* C5: the constructor throws for every eventSource, and setEventId for every
\* id, that is not exactly 12 bytes in UTF-8; a setEventId(id) that returns has
\* written bytes [23, 35) alone, and getEventId() is id.
C5_IdentifiersAreTwelveBytes ==
    [][/\ (lastCall'.op = "Header" /\ phase' = "live") =>
             Utf8ByteLength(args'.eventSource) = ID_BYTE_LENGTH
       /\ (lastCall'.op = "setEventId" /\ lastCall'.outcome = "returned") =>
             /\ Utf8ByteLength(lastCall'.text) = ID_BYTE_LENGTH
             /\ SameOutside(buffer, buffer', OFFSET_EVENT_ID, OFFSET_EVENT_SOURCE)
             /\ getEventId(buffer') = lastCall'.text
       /\ (lastCall'.op = "setEventId" /\ lastCall'.outcome = "threw") =>
             buffer' = buffer]_vars

\* C6: a Header constructed without a fourth argument is not composed; a
\* setComposed(b) with a boolean b returns, leaves isComposed() = b, changes no
\* byte but byte 0 and of byte 0 neither the version nor the granularity, and
\* changes nothing when isComposed() was b already; setComposed with anything
\* else throws and changes nothing.
C6_ComposedFlag ==
    [][/\ (lastCall'.op = "Header" /\ phase' = "live" /\ args'.argc = 3) =>
             ~isComposed(buffer')
       /\ (lastCall'.op = "setComposed" /\ lastCall'.flag.type = "boolean") =>
             /\ lastCall'.outcome = "returned"
             /\ isComposed(buffer') = lastCall'.flag.val
             /\ SameOutside(buffer, buffer', 0, 1)
             /\ getProtocolVersion(buffer') = getProtocolVersion(buffer)
             /\ getTemporalGranularity(buffer') = getTemporalGranularity(buffer)
             /\ isComposed(buffer) = lastCall'.flag.val => buffer' = buffer
       /\ (lastCall'.op = "setComposed" /\ lastCall'.flag.type # "boolean") =>
             /\ lastCall'.outcome = "threw"
             /\ buffer' = buffer]_vars

\* C6, reached: a Header constructed without the flag and with granularity 15
\* has been set composed, and setComposed(true) has just been called again.
C6_Witness ==
    /\ phase = "live"
    /\ args.argc = 3
    /\ args.temporalGranularity = GNumber(15)
    /\ lastCall.op = "setComposed" /\ lastCall.outcome = "returned"
    /\ lastCall.flag = Bool(TRUE)
    /\ isComposed(buffer)
    /\ getTemporalGranularity(buffer) = 15
    /\ getPayloadLength(buffer) = Number(FALSE, 65535, 65535, FALSE)

\* The construction part of C6 over every call of the constructor: no fourth
\* argument, or one that is no boolean, leaves the flag clear, and a boolean is
\* the flag.
ComposedAsConstructed ==
    phase = "live" =>
        isComposed(buffer) = (args.argc >= 4 /\ args.isComposed = Bool(TRUE))

GranularityCodeRoundTrips ==
    (phase = "live" /\ args.temporalGranularity.type = "number") =>
        /\ args.temporalGranularity = GNumber(getTemporalGranularity(buffer))
        /\ getProtocolVersion(buffer) = PROTOCOL_VERSION

\* C8: stringByteLength(str) is the number of bytes of the UTF-8 encoding of str:
\* 1, 2 or 3 for a code unit by its range and 4 for a surrogate pair.
C8_ByteLengthIsEncodedLength ==
    s # -1 => s = EncodedLength(str.head, 1) /\ s = Utf8ByteLength(str)

\* C9: the constructor called with fewer than 3 or more than 4 arguments throws,
\* with `new` or without.
C9_ArgumentCountChecked ==
    (lastCall.op = "Header" /\ args.argc \notin {3, 4}) => phase = "failed"

\* C10: right after construction bytes 3 to 34 are zero: getPayloadLength(),
\* getOccurrenceTime() and getDetectionTime() are 0 and the eventId bytes are 0.
C10_FieldsStartZero ==
    (phase = "live" /\ lastCall.op = "Header") =>
        /\ Slice(buffer.bytes, OFFSET_PAYLOAD_LENGTH, OFFSET_EVENT_SOURCE)
             = Fill(OFFSET_EVENT_SOURCE - OFFSET_PAYLOAD_LENGTH, 0)
        /\ IsZero(getPayloadLength(buffer))
        /\ IsZero(getOccurrenceTime(buffer))
        /\ IsZero(getDetectionTime(buffer))

====
